---- MODULE Spec2Model ----
(***************************************************************************)
(* Model of examplesource/c/main.c: a main() whose body is selected by the *)
(* preprocessor.  When ENABLE_NETWORKING is defined the body is            *)
(*     printDebug("Connecting to network."); makeConnection();             *)
(* otherwise the #else branch holds an #error directive and the            *)
(* translation unit does not compile.                                      *)
(*                                                                         *)
(* The model covers one build (preprocess + compile) and one run of the    *)
(* resulting binary, statement by statement.  printDebug and               *)
(* makeConnection are declared in logging.h / network.h, which are not     *)
(* part of the source; their outcomes are drawn from the sets LogOutcomes  *)
(* and ConnResults.  main is `int main()` and reaches its closing brace    *)
(* without a return statement; the model gives it the value the C          *)
(* standard (C99 5.1.2.2.3 and later) defines for that case, 0.            *)
(***************************************************************************)
EXTENDS Integers, Sequences, FiniteSets, TLC

\* Largest value the macro is defined with on the command line
\* (-DENABLE_NETWORKING=0 .. -DENABLE_NETWORKING=MaxFlagValue).
MaxFlagValue == 3

\* Largest result code makeConnection returns; 0 is success.
MaxConnResult == 4

VARIABLES
    flag,        \* build configuration of ENABLE_NETWORKING: [defined, value]
    build,       \* "unbuilt" | "rejected" | "built"
    capability,  \* "Unresolved" | "Enabled" | "Disabled", resolved by the build
    binary,      \* the statements compiled into main, <<>> when there is none
    pc,          \* "NoProcess" | "Main" | "InPrintDebug" | "InMakeConnection" | "Done"
    ip,          \* index in binary of main's next statement
    calls,       \* the calls main has made so far, in order
    logOk,       \* whether the last printDebug managed to emit its message
    connResult,  \* {r} once makeConnection has returned r, {} before
    exitStatus   \* {s} once the process has exited with status s, {} before

vars == <<flag, build, capability, binary, pc, ip, calls, logOk, connResult, exitStatus>>

----------------------------------------------------------------------------
\* Build configurations: the macro is absent, or defined with a number.
Absent == [defined |-> FALSE, value |-> 0]

FlagSettings == {Absent} \cup {[defined |-> TRUE, value |-> v] : v \in 0..MaxFlagValue}

\* Outcomes of printDebug as seen inside the logging facility (it returns
\* nothing to main): TRUE the message was emitted, FALSE it was not.
LogOutcomes == BOOLEAN

\* Values makeConnection hands back: 0 success, anything else a failure.
ConnResults == 0..MaxConnResult

\* Variant: the test of #if ENABLE_NETWORKING, defined with a non-zero value.
IfdefTaken_ValueTest(f) == f.defined /\ f.value # 0

\* #ifdef ENABLE_NETWORKING: taken when the macro is defined, whatever its value.
IfdefTaken(f) == f.defined

\* Variant: the two calls in the opposite order.
ThenBranch_Swapped == [error |-> FALSE, body |-> <<"makeConnection", "printDebug">>]

\* The group between #ifdef and #else (lines 7-8), in the order of the calls.
ThenBranch == [error |-> FALSE, body |-> <<"printDebug", "makeConnection">>]

\* Variant: a diagnostic that does not stop the build (#warning).
ElseBranch_Warning == [error |-> FALSE, body |-> <<>>]

\* The group between #else and #endif (line 10): an #error directive, no
\* statements.
ElseBranch == [error |-> TRUE, body |-> <<>>]

\* The translation unit after preprocessing.
Preprocess(f) == IF IfdefTaken(f) THEN ThenBranch ELSE ElseBranch

\* Variant: a failed log call skips the connection attempt.
AfterPrintDebug_AbortOnFailure(i, ok) == IF ok THEN i + 1 ELSE i + 2

\* Where main continues after printDebug returns: the call is a plain
\* expression statement, so with the next statement whatever happened.
AfterPrintDebug(i, ok) == i + 1

\* Variant: a failed attempt is made again.
AfterMakeConnection_Retry(i, r) == IF r = 0 THEN i + 1 ELSE i

\* Variant: after a failed attempt main never gets to its closing brace.
AfterMakeConnection_Hang(i, r) == IF r = 0 THEN i + 1 ELSE 0

\* Where main continues after makeConnection returns: the result is
\* discarded, so with the next statement whatever was returned.
AfterMakeConnection(i, r) == i + 1

\* Variant: main returns what makeConnection returned.
MainFallOffEnd_ReturnsResult(results) == IF results = {} THEN 0 ELSE CHOOSE r \in results : TRUE

\* Variant: main returns 1 in every case.
MainFallOffEnd_ReturnsOne(results) == 1

\* The value of main when control reaches its closing brace: there is no
\* return statement, so 0, whatever makeConnection returned (results is
\* connResult at that point).
MainFallOffEnd(results) == 0

\* The status the host sees for a value returned from main.
ExitStatusOf(v) == v % 256

Count(s, name) == Cardinality({i \in 1..Len(s) : s[i] = name})

----------------------------------------------------------------------------
Init ==
    /\ flag \in FlagSettings
    /\ build = "unbuilt"
    /\ capability = "Unresolved"
    /\ binary = <<>>
    /\ pc = "NoProcess"
    /\ ip = 0
    /\ calls = <<>>
    /\ logOk = TRUE
    /\ connResult = {}
    /\ exitStatus = {}

\* Preprocess and compile main.c under the build configuration.
Build ==
    /\ build = "unbuilt"
    /\ LET tu == Preprocess(flag) IN
         /\ build' = IF tu.error THEN "rejected" ELSE "built"
         /\ binary' = tu.body
    /\ capability' = IF IfdefTaken(flag) THEN "Enabled" ELSE "Disabled"
    /\ UNCHANGED <<flag, pc, ip, calls, logOk, connResult, exitStatus>>

\* Variant: process start resolves the capability again, from the
\* environment of the run, instead of leaving it as the build fixed it.
Exec_ReadsEnvironment ==
    /\ build = "built"
    /\ pc = "NoProcess"
    /\ pc' = "Main"
    /\ ip' = 1
    /\ capability' \in {"Enabled", "Disabled"}
    /\ UNCHANGED <<flag, build, binary, calls, logOk, connResult, exitStatus>>

\* Start of the process: control enters main.
Exec ==
    /\ build = "built"
    /\ pc = "NoProcess"
    /\ pc' = "Main"
    /\ ip' = 1
    /\ UNCHANGED <<flag, build, capability, binary, calls, logOk, connResult, exitStatus>>

\* printDebug("Connecting to network.");
CallPrintDebug ==
    /\ pc = "Main"
    /\ ip \in 1..Len(binary)
    /\ binary[ip] = "printDebug"
    /\ pc' = "InPrintDebug"
    /\ calls' = Append(calls, "printDebug")
    /\ UNCHANGED <<flag, build, capability, binary, ip, logOk, connResult, exitStatus>>

PrintDebugReturns ==
    /\ pc = "InPrintDebug"
    /\ \E ok \in LogOutcomes :
         /\ logOk' = ok
         /\ ip' = AfterPrintDebug(ip, ok)
    /\ pc' = "Main"
    /\ UNCHANGED <<flag, build, capability, binary, calls, connResult, exitStatus>>

\* makeConnection();
CallMakeConnection ==
    /\ pc = "Main"
    /\ ip \in 1..Len(binary)
    /\ binary[ip] = "makeConnection"
    /\ pc' = "InMakeConnection"
    /\ calls' = Append(calls, "makeConnection")
    /\ UNCHANGED <<flag, build, capability, binary, ip, logOk, connResult, exitStatus>>

MakeConnectionReturns ==
    /\ pc = "InMakeConnection"
    /\ \E r \in ConnResults :
         /\ connResult' = {r}
         /\ ip' = AfterMakeConnection(ip, r)
    /\ pc' = "Main"
    /\ UNCHANGED <<flag, build, capability, binary, calls, logOk, exitStatus>>

\* Control reaches the closing brace of main and the process exits.
MainReturn ==
    /\ pc = "Main"
    /\ ip > Len(binary)
    /\ pc' = "Done"
    /\ exitStatus' = {ExitStatusOf(MainFallOffEnd(connResult))}
    /\ UNCHANGED <<flag, build, capability, binary, ip, calls, logOk, connResult>>

Next ==
    \/ Build
    \/ Exec
    \/ CallPrintDebug
    \/ PrintDebugReturns
    \/ CallMakeConnection
    \/ MakeConnectionReturns
    \/ MainReturn

Spec == Init /\ [][Next]_vars

\* main runs on one thread that keeps running, printDebug does not block,
\* and the connection attempt resolves (the proviso of the termination claim).
FairSpec ==
    /\ Spec
    /\ WF_vars(Exec)
    /\ WF_vars(CallPrintDebug)
    /\ WF_vars(PrintDebugReturns)
    /\ WF_vars(CallMakeConnection)
    /\ WF_vars(MakeConnectionReturns)
    /\ WF_vars(MainReturn)

----------------------------------------------------------------------------
TypeOK ==
    /\ flag \in FlagSettings
    /\ build \in {"unbuilt", "rejected", "built"}
    /\ capability \in {"Unresolved", "Enabled", "Disabled"}
    /\ pc \in {"NoProcess", "Main", "InPrintDebug", "InMakeConnection", "Done"}
    /\ ip \in 0..(Len(binary) + 1)
    /\ logOk \in BOOLEAN
    /\ connResult \in {{}} \cup {{r} : r \in ConnResults}
    /\ exitStatus \in {{}} \cup {{s} : s \in 0..255}

\* The two states of the bootstrap controller; "NoProcess" before the run.
BootState ==
    IF pc = "NoProcess" THEN "NoProcess"
    ELSE IF pc = "Done" THEN "Done" ELSE "NotStarted"

----------------------------------------------------------------------------
Failed(results) == results # {} /\ 0 \notin results

\* C1: in an Enabled build the printDebug call comes before the
\* makeConnection call: no connection attempt has started without an
\* earlier log call.
C1_LogBeforeConnect ==
    capability = "Enabled" =>
        \A i \in 1..Len(calls) :
            calls[i] = "makeConnection" =>
                \E j \in 1..(i - 1) : calls[j] = "printDebug"

C1_Witness ==
    /\ capability = "Enabled"
    /\ pc = "InMakeConnection"
    /\ calls = <<"printDebug", "makeConnection">>

\* C2: in an Enabled build, whatever makeConnection returns, a run makes at
\* most one log call and one connection attempt at any time, and exactly one
\* of each once it has finished: no retry, no second log.
C2_ExactlyOnce ==
    capability = "Enabled" =>
        /\ Count(calls, "printDebug") <= 1
        /\ Count(calls, "makeConnection") <= 1
        /\ pc = "Done" =>
              /\ Count(calls, "printDebug") = 1
              /\ Count(calls, "makeConnection") = 1

C2_Witness ==
    /\ capability = "Enabled"
    /\ pc = "Done"
    /\ Failed(connResult)
    /\ Len(calls) = 2

\* C3: in a Disabled build (the #else group is selected) the build is
\* rejected and nothing runs: no binary, no process, no log call, no
\* connection attempt, no exit status.
C3_DisabledNoRuntime ==
    capability = "Disabled" =>
        /\ build = "rejected"
        /\ binary = <<>>
        /\ pc = "NoProcess"
        /\ calls = <<>>
        /\ exitStatus = {}

C3_Witness ==
    /\ capability = "Disabled"
    /\ build = "rejected"
    /\ ~flag.defined

\* C4: in an Enabled build, when makeConnection signals failure the
\* process exits with a status that indicates failure.
C4_FailurePropagated ==
    (capability = "Enabled" /\ pc = "Done" /\ Failed(connResult)) =>
        (exitStatus # {} /\ 0 \notin exitStatus)

\* C5: in an Enabled build, when makeConnection signals success the
\* process exits with the status that indicates success, 0.
C5_SuccessExit ==
    (capability = "Enabled" /\ pc = "Done" /\ connResult = {0}) =>
        exitStatus = {0}

C5_Witness ==
    /\ capability = "Enabled"
    /\ pc = "Done"
    /\ connResult = {0}
    /\ exitStatus = {0}

\* C6 as stated: the Enabled variant is built only when the flag has a true
\* value; the build fails when the flag is false and when it is absent.
C6_BooleanSwitch ==
    build # "unbuilt" =>
        IF flag.defined /\ flag.value # 0
            THEN build = "built" /\ binary = <<"printDebug", "makeConnection">>
            ELSE build = "rejected"

\* C6 amended: the Enabled variant is built whenever the flag is present,
\* with a true or a false value; the build fails only when it is absent.
C6_DefinedSwitch ==
    build # "unbuilt" =>
        IF flag.defined
            THEN build = "built" /\ binary = <<"printDebug", "makeConnection">>
            ELSE build = "rejected"

C6_Witness ==
    /\ flag.defined
    /\ flag.value = 0
    /\ build = "built"
    /\ binary = <<"printDebug", "makeConnection">>

\* C7: in an Enabled build a failed log call does not abort the sequence:
\* whatever printDebug's outcome, the finished run has made exactly one
\* connection attempt, which resolved, and its exit status is the one main
\* yields for that connection result alone.
C7_LogFailureDoesNotAbort ==
    (capability = "Enabled" /\ pc = "Done") =>
        /\ Count(calls, "makeConnection") = 1
        /\ connResult # {}
        /\ exitStatus = {ExitStatusOf(MainFallOffEnd(connResult))}

C7_Witness ==
    /\ capability = "Enabled"
    /\ pc = "Done"
    /\ ~logOk
    /\ Count(calls, "makeConnection") = 1
    /\ connResult # {}

\* C8: in an Enabled build the controller only moves NotStarted -> Done;
\* given that the connection attempt resolves, a started run eventually
\* reaches Done whatever the outcome; and Done is terminal: no step of any
\* kind is taken from it.
C8_DoneReachedAndTerminal ==
    /\ (BootState = "NotStarted") ~> (BootState = "Done")
    /\ [][BootState = "NotStarted" => BootState' \in {"NotStarted", "Done"}]_vars
    /\ [][pc # "Done"]_vars

C8_Witness ==
    /\ capability = "Enabled"
    /\ BootState = "Done"
    /\ Failed(connResult)
    /\ ~logOk

\* C9: the capability is fixed by the build and no later step changes it:
\* once built, it is the value the build configuration selects, in every
\* state of the run, and every step leaves it and the flag as they were.
C9_CapabilityFixed ==
    /\ [](build # "unbuilt" =>
            capability = IF flag.defined THEN "Enabled" ELSE "Disabled")
    /\ [][build # "unbuilt" => (capability' = capability /\ flag' = flag)]_vars

C9_Witness ==
    /\ flag.defined
    /\ capability = "Enabled"
    /\ pc = "Done"
    /\ calls = <<"printDebug", "makeConnection">>

\* C10: in an Enabled build where makeConnection returned, the exit status
\* is the one a run with any other connection result would have produced:
\* the status does not depend on what makeConnection returned.
C10_ExitIndependentOfResult ==
    (capability = "Enabled" /\ pc = "Done" /\ connResult # {}) =>
        \A r \in ConnResults :
            exitStatus = {ExitStatusOf(MainFallOffEnd({r}))}

C10_Witness ==
    /\ capability = "Enabled"
    /\ pc = "Done"
    /\ Failed(connResult)
    /\ exitStatus = {0}

====
